---- MODULE Spec2Model ----
(***************************************************************************)
(* Article search microservice: the reindex job (main.py reindex_articles), *)
(* the /search and /health endpoints (main.py search_articles,             *)
(* health_check) and the store read with its retry policy                  *)
(* (neo4j_conn.py Neo4jService.get_articles).                              *)
(*                                                                         *)
(* All three coroutines run on one asyncio event loop.  A coroutine keeps  *)
(* the loop from the moment it is resumed until its next await on I/O.     *)
(* Neo4jService.get_articles is a synchronous function, and tenacity waits *)
(* between its attempts with a blocking sleep, so the coroutine that calls *)
(* it keeps the loop for the whole call: variable loop names that holder.  *)
(***************************************************************************)
EXTENDS Integers, Sequences, FiniteSets, TLC

\* ---------------------------------------------------------------- bounds
\* Longest list among the innermost lists of a checked content tree.
MaxArrayLen == 2
\* Longest raw contentJson string (in characters) drawn from RawChars.
MaxRawLen == 4
\* Largest max_buffer_size of a checked BetterStackHandler.
MaxBufferSize == 2
\* Largest number of records emitted to a checked BetterStackHandler.
MaxEmits == 5
\* Largest number of pending flush tasks at which flush() or close() is
\* still called on a checked BetterStackHandler.
MaxTasks == 2
\* Largest number of articles the store holds in a checked behaviour.
MaxArticles == 101
\* Longest query string (in characters) a client sends.
MaxQueryLen == 501
\* Number of reindex runs the scheduler starts in a checked behaviour.
MaxRuns == 2

\* ------------------------------------------------------ program constants
\* get_articles(self, skip=0, limit=100)
DEFAULT_SKIP == 0
DEFAULT_LIMIT == 100
\* health_check: neo4j_service.get_articles(limit=1)
HEALTH_LIMIT == 1
\* @retry(stop=stop_after_attempt(3)) on Neo4jService.get_articles
NEO4J_STOP_AFTER_ATTEMPT == 3
\* @retry(stop=stop_after_attempt(3)) on search_articles
SEARCH_STOP_AFTER_ATTEMPT == 3
\* SearchQuery.query: Field(..., max_length=500)
MAX_LENGTH == 500
\* status codes: FastAPI request validation, HTTPException(500), HTTPException(503)
HTTP_OK == 200
\* max_buffer_size: int = 1
DEFAULT_MAX_BUFFER_SIZE == 1
HTTP_UNPROCESSABLE == 422
HTTP_SERVER_ERROR == 500
HTTP_UNAVAILABLE == 503

VARIABLES
  store,        \* the graph store: sequence of article nodes, in match order
  indexExists,  \* the search engine has an index named "articles"
  indexDocs,    \* documents of that index, keyed by primary key id
  loop,         \* coroutine that holds the event loop, or "free"
  reindex,      \* the reindex_articles job
  search,       \* the POST /search request
  health,       \* the GET /health request
  drivers,      \* open Neo4j drivers
  clients,      \* open Meilisearch clients
  handler,      \* the BetterStackHandler of logger 'ArticleSearch'
  content       \* one application of the content processing of get_articles

vars == <<store, indexExists, indexDocs, loop, reindex, search, health,
          drivers, clients, handler, content>>

\* The variables of the service proper, of the log handler and of the
\* content processing.
serviceVars == <<store, indexExists, indexDocs, loop, reindex, search, health,
                 drivers, clients>>

Min(a, b) == IF a <= b THEN a ELSE b

\* ------------------------------------------------------------ environment
\* Store sizes of the checked behaviours: the empty store, one article, and
\* the sizes from the default page limit on.
StoreSizes == {n \in 0..MaxArticles : n <= 1 \/ n >= DEFAULT_LIMIT}

\* Query lengths of the checked behaviours: the empty query and the lengths
\* from the validation limit on.
QueryLens == {n \in 0..MaxQueryLen : n = 0 \/ n >= MAX_LENGTH}

\* Outcome of GraphDatabase.driver(...)
DriverOutcomes == {"ok", "error"}
\* Outcome of session.run(...) and of consuming its records
StoreOutcomes == {"ok", "error"}
\* Outcome of client.get_index("articles"): the engine reports the index,
\* reports index_not_found, fails with another MeilisearchApiError, or the
\* call fails with an exception of another type (e.g. a connection error).
GetIndexOutcomes ==
  (IF indexExists THEN {"found"} ELSE {"index_not_found"})
    \cup {"api_error", "other_error"}
\* Outcome of client.create_index and index.add_documents
WriteOutcomes == {"ok", "api_error", "other_error"}
\* Outcome of index.search: hits only from an existing index; "bad_hits"
\* are hits of which one is not a SearchResult (an id that is not a string,
\* a description that is null)
SearchOutcomes ==
  (IF indexExists THEN {"ok", "bad_hits"} ELSE {})
    \cup {"api_error", "other_error"}

\* Exception raised by a search-engine call with the given outcome.
MeiliException(outcome) ==
  CASE outcome = "index_not_found" -> "MeilisearchApiError"
    [] outcome = "api_error"       -> "MeilisearchApiError"
    [] outcome = "other_error"     -> "Exception"
    [] OTHER                       -> "none"

\* isinstance(exc, cls) for the exception classes of the program
IsInstance(exc, cls) ==
  /\ exc # "none"
  /\ \/ cls = "Exception"
     \/ exc = cls

\* ------------------------------------------------------- tenacity's retry
\* What the @retry wrapper does after an attempt that ended with exception
\* exc ("none": it returned): "return" the value, "reraise" an exception
\* the retry predicate does not match, "sleep" (call before_sleep, wait,
\* attempt again), or give up with "retry_error" once stop_after_attempt
\* is reached.
\* The wrapper with a stop condition that is off by one: it gives up only
\* after stopAfter + 1 attempts.
RetryDecision_OffByOne(attempt, exc, retryType, stopAfter) ==
  IF exc = "none" THEN "return"
  ELSE IF ~IsInstance(exc, retryType) THEN "reraise"
  ELSE IF attempt > stopAfter THEN "retry_error"
  ELSE "sleep"

RetryDecision(attempt, exc, retryType, stopAfter) ==
  IF exc = "none" THEN "return"
  ELSE IF ~IsInstance(exc, retryType) THEN "reraise"
  ELSE IF attempt >= stopAfter THEN "retry_error"
  ELSE "sleep"

\* ------------------------------------------------ Neo4jService.get_articles
\* MATCH (n:Article) RETURN ... SKIP $skip LIMIT $limit
Page(s, skip, limit) ==
  SubSeq(s, skip + 1, Min(Len(s), skip + limit))

\* The article dictionaries built from the records of one page.
Articles(records) ==
  [i \in 1..Len(records) |-> [id |-> records[i].id, ver |-> records[i].ver]]

\* The state of one get_articles(skip, limit) call under its @retry
\* wrapper: tenacity's attempt number, the attempt numbers of the retry
\* warnings logged by before_sleep, the outcome of the store query of each
\* attempt, how the call ended, the articles it returned, and the numbers
\* of sessions it has opened and closed.
Call(skip, limit) ==
  [skip |-> skip, limit |-> limit, attempt |-> 1, warnings |-> <<>>,
   outcomes |-> <<>>, status |-> "running", articles |-> <<>>,
   opened |-> 0, closed |-> 0]

NoCall ==
  [skip |-> 0, limit |-> 0, attempt |-> 0, warnings |-> <<>>,
   outcomes |-> <<>>, status |-> "none", articles |-> <<>>,
   opened |-> 0, closed |-> 0]

\* @retry(stop=stop_after_attempt(3), wait=wait_fixed(2),
\*        retry=retry_if_exception_type(Exception), before_sleep=...)
\* tenacity's decision after an attempt of call c with the given outcome.
get_articles_decision(c, outcome) ==
  RetryDecision(c.attempt,
                IF outcome = "ok" THEN "none" ELSE "Exception",
                "Exception", NEO4J_STOP_AFTER_ATTEMPT)

\* The attempt whose session is closed only when the query returns.
get_articles_leaky(c, outcome) ==
  [c EXCEPT
     !.outcomes = Append(@, outcome),
     !.warnings = IF get_articles_decision(c, outcome) = "sleep"
                  THEN Append(@, c.attempt) ELSE @,
     !.status   = CASE get_articles_decision(c, outcome) = "return" -> "returned"
                    [] get_articles_decision(c, outcome) = "sleep"  -> "sleeping"
                    [] OTHER -> "raised",
     !.articles = IF outcome = "ok"
                  THEN Articles(Page(store, c.skip, c.limit)) ELSE @,
     !.opened   = @ + 1,
     !.closed   = IF outcome = "ok" THEN @ + 1 ELSE @]

\* One attempt of call c: the session is opened and runs the query; the
\* records are turned into articles and returned, or the exception reaches
\* tenacity; either way the with block closes the session.
get_articles(c, outcome) ==
  [c EXCEPT
     !.opened   = @ + 1,
     !.closed   = @ + 1,
     !.outcomes = Append(@, outcome),
     !.warnings = IF get_articles_decision(c, outcome) = "sleep"
                  THEN Append(@, c.attempt) ELSE @,
     !.status   = CASE get_articles_decision(c, outcome) = "return" -> "returned"
                    [] get_articles_decision(c, outcome) = "sleep"  -> "sleeping"
                    [] OTHER -> "raised",
     !.articles = IF outcome = "ok"
                  THEN Articles(Page(store, c.skip, c.limit)) ELSE @]

\* wait_fixed(2) has elapsed: the next attempt of call c starts.
get_articles_wake(c) ==
  [c EXCEPT !.attempt = @ + 1, !.status = "running"]

\* ------------------------------------------------------------ the index
Ids(arts) == {arts[i].id : i \in 1..Len(arts)}

\* index.add_documents(articles): upsert by primary key; of several
\* documents with one id the last one wins.
LastWith(arts, id) ==
  CHOOSE i \in 1..Len(arts) :
    /\ arts[i].id = id
    /\ \A j \in (i + 1)..Len(arts) : arts[j].id # id

\* The write that adds the documents with new ids and leaves the documents
\* the index already holds as they are.
add_documents_insert_only(docs, arts) ==
  [id \in (DOMAIN docs) \cup Ids(arts) |->
     IF id \in DOMAIN docs THEN docs[id] ELSE arts[LastWith(arts, id)].ver]

\* The write that replaces the documents of the index with the articles.
add_documents_replace(docs, arts) ==
  [id \in Ids(arts) |-> arts[LastWith(arts, id)].ver]

add_documents(docs, arts) ==
  [id \in (DOMAIN docs) \cup Ids(arts) |->
     IF id \in Ids(arts) THEN arts[LastWith(arts, id)].ver ELSE docs[id]]

EmptyDocs == [id \in {} |-> 0]

\* ------------------------------------------------------------------ Init
\* The log handler and the content processing at rest: the specification of
\* the service leaves them alone.
HandlerIdle ==
  [maxlen |-> 0, buffer |-> <<>>, emitted |-> 0, tasks |-> 0,
   batches |-> <<>>]

\* JSON values: kind is "null", "bool", "number", "str", "list" or "dict";
\* val holds the characters of a string (the digits of a number, the
\* letter of a boolean), elems the items of a list, pairs the key/value
\* pairs of a dict in enumeration order.
Null == [kind |-> "null", val |-> <<>>, elems |-> <<>>, pairs |-> <<>>]
Bool(b) == [kind |-> "bool", val |-> IF b THEN <<"T">> ELSE <<"F">>,
            elems |-> <<>>, pairs |-> <<>>]
Num(digits) == [kind |-> "number", val |-> digits, elems |-> <<>>,
                pairs |-> <<>>]
Str(chars) == [kind |-> "str", val |-> chars, elems |-> <<>>, pairs |-> <<>>]
List(elems) == [kind |-> "list", val |-> <<>>, elems |-> elems,
                pairs |-> <<>>]
Dict(pairs) == [kind |-> "dict", val |-> <<>>, elems |-> <<>>,
                pairs |-> pairs]

ContentIdle ==
  [pc |-> "idle", tree |-> Null, text |-> <<>>, records |-> <<>>,
   raised |-> {}, articles |-> <<>>]

\* The successful runs so far that ended with the run that wrote last and
\* fetched the same articles as it: their number, those articles, and the
\* documents of the index after the first of them.
NotSynced == [runs |-> 0, articles |-> <<>>, docs |-> EmptyDocs]

ReindexIdle ==
  [pc |-> "idle", run |-> 0, call |-> NoCall, articles |-> <<>>,
   checks |-> 0, creates |-> 0,
   writes |-> 0, checked |-> "none", result |-> "none", errLogs |-> 0,
   stage |-> "none", escaped |-> FALSE, synced |-> NotSynced]

SearchIdle ==
  [pc |-> "idle", qlen |-> 0, code |-> 0, body |-> "none", attempts |-> 0,
   warnings |-> 0, indexCalls |-> 0, apiFailures |-> 0, otherFailures |-> 0]

HealthIdle ==
  [pc |-> "idle", call |-> NoCall, neo4j |-> "healthy",
   meilisearch |-> "healthy", code |-> 0, neoProbe |-> "none",
   meiliProbe |-> "none", indexChecks |-> 0]

Init ==
  /\ \E n \in StoreSizes : store = [i \in 1..n |-> [id |-> i, ver |-> 1]]
  /\ indexExists \in BOOLEAN
  /\ indexDocs = EmptyDocs
  /\ loop = "free"
  /\ reindex = ReindexIdle
  /\ search = SearchIdle
  /\ health = HealthIdle
  /\ drivers = 0
  /\ clients = 0
  /\ handler = HandlerIdle
  /\ content = ContentIdle

\* ------------------------------------------------------- reindex_articles
\* A handler that catches the search engine's errors only.
reindex_catches_api(exc) == IsInstance(exc, "MeilisearchApiError")

\* except Exception as e: logger.error(f"Reindexing failed: ...")
reindex_catches(exc) == IsInstance(exc, "Exception")

\* The run ends with exception exc raised in the given stage.
ReindexFailed(r, exc, stage) ==
  [r EXCEPT !.pc      = "idle",
            !.result  = "failed",
            !.stage   = stage,
            !.errLogs = IF reindex_catches(exc) THEN @ + 1 ELSE @,
            !.escaped = ~reindex_catches(exc)]

\* The existence check without the test of e.error_code: every
\* MeilisearchApiError leads to create_index.
ensure_index_next_any_api(outcome) ==
  IF MeiliException(outcome) = "none" THEN "write"
  ELSE IF IsInstance(MeiliException(outcome), "MeilisearchApiError")
       THEN "create"
       ELSE "raise"

\* The existence check without the creation: index_not_found is raised
\* like any other error.
ensure_index_next_no_create(outcome) ==
  IF MeiliException(outcome) = "none" THEN "write" ELSE "raise"

\* The existence check whose failures are logged and not raised: the run
\* goes on to write.
ensure_index_next_no_raise(outcome) ==
  IF outcome = "index_not_found" THEN "create" ELSE "write"

\* try: await client.get_index("articles")
\* except MeilisearchApiError as e:
\*     if e.error_code == "index_not_found": create_index ... else: log; raise
\* What follows the existence check: "write" (index.add_documents),
\* "create" (client.create_index) or "raise".
ensure_index_next(outcome) ==
  IF MeiliException(outcome) = "none" THEN "write"
  ELSE IF IsInstance(MeiliException(outcome), "MeilisearchApiError")
       THEN IF outcome = "index_not_found" THEN "create" ELSE "raise"
       ELSE "raise"

\* logger.error(f"Meilisearch error during reindexing: ...") before raise
ensure_index_logs(outcome) ==
  IF /\ IsInstance(MeiliException(outcome), "MeilisearchApiError")
     /\ outcome # "index_not_found"
  THEN 1 ELSE 0

\* A run that fetched arts has written: docs are the documents of the index.
Synced(s, arts, docs) ==
  IF s.runs > 0 /\ s.articles = arts
  THEN [s EXCEPT !.runs = @ + 1]
  ELSE [runs |-> 1, articles |-> arts, docs |-> docs]

\* The scheduler starts a run: Neo4jService(...) opens the driver and the
\* run enters get_articles() with the default skip and limit.
reindex_start ==
  /\ loop = "free"
  /\ reindex.pc = "idle"
  /\ reindex.run < MaxRuns
  /\ \E d \in DriverOutcomes :
       LET r == [ReindexIdle EXCEPT !.run = reindex.run + 1,
                                    !.synced = reindex.synced]
       IN
       IF d = "ok"
       THEN /\ reindex' = [r EXCEPT !.pc = "fetch",
                                    !.result = "running",
                                    !.call = Call(DEFAULT_SKIP, DEFAULT_LIMIT)]
            /\ loop' = "reindex"
            /\ drivers' = drivers + 1
       ELSE /\ reindex' = ReindexFailed(r, "Exception", "driver")
            /\ UNCHANGED <<loop, drivers>>
  /\ UNCHANGED <<store, indexExists, indexDocs, search, health, clients>>
  /\ UNCHANGED <<handler, content>>

\* One attempt of neo4j_service.get_articles().  On return the driver is
\* closed, the Meilisearch client is opened and get_index is awaited; on
\* the last failed attempt the failure reaches the except clause.
reindex_fetch ==
  /\ loop = "reindex"
  /\ reindex.pc = "fetch"
  /\ \E o \in StoreOutcomes :
       LET c == get_articles(reindex.call, o)
           r == [reindex EXCEPT !.call = c]
       IN
          CASE c.status = "returned" ->
                 /\ reindex' = [r EXCEPT !.pc = "check",
                                         !.articles = c.articles,
                                         !.checks = @ + 1]
                 /\ loop' = "free"
                 /\ drivers' = drivers - 1
                 /\ clients' = clients + 1
            [] c.status = "sleeping" ->
                 /\ reindex' = [r EXCEPT !.pc = "sleep"]
                 /\ UNCHANGED <<loop, drivers, clients>>
            [] OTHER ->
                 /\ reindex' = ReindexFailed(r, "RetryError", "fetch")
                 /\ loop' = "free"
                 /\ drivers' = drivers - 1
                 /\ UNCHANGED clients
  /\ UNCHANGED <<store, indexExists, indexDocs, search, health>>
  /\ UNCHANGED <<handler, content>>

\* wait_fixed(2) has elapsed: tenacity starts the next attempt.
reindex_fetch_sleep ==
  /\ loop = "reindex"
  /\ reindex.pc = "sleep"
  /\ reindex' = [reindex EXCEPT !.pc = "fetch",
                                !.call = get_articles_wake(@)]
  /\ UNCHANGED <<store, indexExists, indexDocs, loop, search, health,
                 drivers, clients>>
  /\ UNCHANGED <<handler, content>>

\* await client.get_index("articles") completes.
reindex_check ==
  /\ loop = "free"
  /\ reindex.pc = "check"
  /\ \E o \in GetIndexOutcomes :
       /\ CASE ensure_index_next(o) = "write" ->
                 /\ reindex' = [reindex EXCEPT !.pc = "write",
                                               !.checked = o,
                                               !.writes = @ + 1]
                 /\ UNCHANGED clients
            [] ensure_index_next(o) = "create" ->
                 /\ reindex' = [reindex EXCEPT !.pc = "create",
                                               !.checked = o,
                                               !.creates = @ + 1]
                 /\ UNCHANGED clients
            [] OTHER ->
                 /\ reindex' = ReindexFailed(
                      [reindex EXCEPT !.checked = o,
                                      !.errLogs = @ + ensure_index_logs(o)],
                      MeiliException(o), "check")
                 /\ clients' = clients - 1
  /\ UNCHANGED <<store, indexExists, indexDocs, loop, search, health,
                 drivers>>
  /\ UNCHANGED <<handler, content>>

\* await client.create_index("articles", primary_key="id") completes.
reindex_create ==
  /\ loop = "free"
  /\ reindex.pc = "create"
  /\ \E o \in WriteOutcomes :
       IF o = "ok"
       THEN /\ indexExists' = TRUE
            /\ reindex' = [reindex EXCEPT !.pc = "write", !.writes = @ + 1]
            /\ UNCHANGED clients
       ELSE /\ reindex' = ReindexFailed(reindex, MeiliException(o), "create")
            /\ clients' = clients - 1
            /\ UNCHANGED indexExists
  /\ UNCHANGED <<store, indexDocs, loop, search, health, drivers>>
  /\ UNCHANGED <<handler, content>>

\* await index.add_documents(articles) completes.
reindex_write ==
  /\ loop = "free"
  /\ reindex.pc = "write"
  /\ \E o \in WriteOutcomes :
       IF o = "ok"
       THEN /\ indexDocs' = add_documents(indexDocs, reindex.articles)
            /\ reindex' = [reindex EXCEPT
                             !.pc = "idle",
                             !.result = "ok",
                             !.synced = Synced(@, reindex.articles,
                                               indexDocs')]
       ELSE /\ reindex' = ReindexFailed(reindex, MeiliException(o), "write")
            /\ UNCHANGED indexDocs
  /\ clients' = clients - 1
  /\ UNCHANGED <<store, indexExists, loop, search, health, drivers>>
  /\ UNCHANGED <<handler, content>>

\* -------------------------------------------------------- search_articles
\* The length limit taken as exclusive.
SearchQuery_exclusive(qlen) == qlen < MAX_LENGTH

\* class SearchQuery(BaseModel): query: str = Field(..., max_length=500)
\* FastAPI validates the body before it calls the endpoint function.
SearchQuery(qlen) == qlen <= MAX_LENGTH

\* The exception raised inside the try block of search_articles when
\* index.search ends with the given outcome: the one of the index call, or
\* pydantic's ValidationError of SearchResult(**hit) for a hit that is not
\* a SearchResult.
search_try_raises(outcome) ==
  IF outcome = "bad_hits" THEN "ValidationError"
  ELSE MeiliException(outcome)

\* The exception that leaves the body of search_articles when index.search
\* ends with the given outcome: both except clauses raise HTTPException.
search_articles_raises(outcome) ==
  IF search_try_raises(outcome) = "none" THEN "none"
  ELSE IF IsInstance(search_try_raises(outcome), "MeilisearchApiError")
       THEN "HTTPException"
       ELSE IF IsInstance(search_try_raises(outcome), "Exception")
            THEN "HTTPException"
            ELSE search_try_raises(outcome)

\* The second except clause answering 503 instead of 500.
search_articles_status_split(outcome) ==
  IF search_articles_raises(outcome) = "none" THEN HTTP_OK
  ELSE IF IsInstance(search_try_raises(outcome), "MeilisearchApiError")
       THEN HTTP_SERVER_ERROR
       ELSE HTTP_UNAVAILABLE

\* raise HTTPException(status_code=500, ...) in either except clause; an
\* exception FastAPI does not know becomes a 500 response as well.
search_articles_status(outcome) ==
  IF search_articles_raises(outcome) = "none" THEN HTTP_OK
  ELSE HTTP_SERVER_ERROR

\* @retry(stop=stop_after_attempt(3), wait=wait_fixed(2),
\*        retry=retry_if_exception_type(MeilisearchApiError), ...)
\* around the endpoint function.
SearchDecision(outcome) ==
  RetryDecision(search.attempts, search_articles_raises(outcome),
                "MeilisearchApiError", SEARCH_STOP_AFTER_ATTEMPT)

\* A POST /search request arrives with a query of qlen characters.
search_request ==
  /\ loop = "free"
  /\ search.pc = "idle"
  /\ \E qlen \in QueryLens :
       IF SearchQuery(qlen)
       THEN /\ search' = [SearchIdle EXCEPT !.pc = "await",
                                            !.qlen = qlen,
                                            !.attempts = 1,
                                            !.indexCalls = 1]
            /\ clients' = clients + 1
       ELSE /\ search' = [SearchIdle EXCEPT !.qlen = qlen,
                                            !.code = HTTP_UNPROCESSABLE,
                                            !.body = "validation_error"]
            /\ UNCHANGED clients
  /\ UNCHANGED <<store, indexExists, indexDocs, loop, reindex, health,
                 drivers>>
  /\ UNCHANGED <<handler, content>>

\* await index.search(...) completes and the hits are turned into
\* SearchResults; the retry wrapper decides.
search_return ==
  /\ loop = "free"
  /\ search.pc = "await"
  /\ \E o \in SearchOutcomes :
       LET counted == [search EXCEPT
             !.apiFailures   = IF o = "api_error" THEN @ + 1 ELSE @,
             !.otherFailures = IF o = "other_error" THEN @ + 1 ELSE @]
       IN  CASE SearchDecision(o) = "return" ->
                  /\ search' = [counted EXCEPT !.pc = "idle",
                                               !.code = HTTP_OK,
                                               !.body = "hits"]
                  /\ clients' = clients - 1
             [] SearchDecision(o) = "sleep" ->
                  /\ search' = [counted EXCEPT !.attempts = @ + 1,
                                               !.warnings = @ + 1,
                                               !.indexCalls = @ + 1]
                  /\ UNCHANGED clients
             [] OTHER ->
                  /\ search' = [counted EXCEPT
                                  !.pc = "idle",
                                  !.code = search_articles_status(o),
                                  !.body = "error"]
                  /\ clients' = clients - 1
  /\ UNCHANGED <<store, indexExists, indexDocs, loop, reindex, health,
                 drivers>>
  /\ UNCHANGED <<handler, content>>

\* ----------------------------------------------------------- health_check
\* try: ... except Exception as e: health_status[...] = f"unhealthy: ..."
health_status(exc) ==
  IF IsInstance(exc, "Exception") THEN "unhealthy" ELSE "healthy"

\* The overall status composed with any() instead of all().
health_response_any(neo4j, meilisearch) ==
  IF neo4j = "healthy" \/ meilisearch = "healthy"
  THEN HTTP_OK ELSE HTTP_UNAVAILABLE

\* if all(status == "healthy" ...): return {...}
\* else: raise HTTPException(status_code=503, ...)
health_response(neo4j, meilisearch) ==
  IF neo4j = "healthy" /\ meilisearch = "healthy"
  THEN HTTP_OK ELSE HTTP_UNAVAILABLE

\* The first probe is over with exception exc ("none": it returned): the
\* status is recorded, the Meilisearch client is opened and get_index is
\* awaited.
HealthAfterNeo(h, exc) ==
  [h EXCEPT !.pc = "meili",
            !.neoProbe = IF exc = "none" THEN "returned" ELSE "raised",
            !.neo4j = health_status(exc),
            !.indexChecks = @ + 1]

\* A GET /health request arrives: Neo4jService(...) opens the driver and
\* the check enters get_articles(limit=1).
health_start ==
  /\ loop = "free"
  /\ health.pc = "idle"
  /\ \E d \in DriverOutcomes :
       IF d = "ok"
       THEN /\ health' = [HealthIdle EXCEPT
                            !.pc = "probe",
                            !.call = Call(DEFAULT_SKIP, HEALTH_LIMIT)]
            /\ loop' = "health"
            /\ drivers' = drivers + 1
            /\ UNCHANGED clients
       ELSE /\ health' = HealthAfterNeo(HealthIdle, "Exception")
            /\ clients' = clients + 1
            /\ UNCHANGED <<loop, drivers>>
  /\ UNCHANGED <<store, indexExists, indexDocs, reindex, search>>
  /\ UNCHANGED <<handler, content>>

\* One attempt of neo4j_service.get_articles(limit=1).
health_probe ==
  /\ loop = "health"
  /\ health.pc = "probe"
  /\ \E o \in StoreOutcomes :
       LET c == get_articles(health.call, o)
           h == [health EXCEPT !.call = c]
       IN
          CASE c.status = "returned" ->
                 /\ health' = HealthAfterNeo(h, "none")
                 /\ loop' = "free"
                 /\ drivers' = drivers - 1
                 /\ clients' = clients + 1
            [] c.status = "sleeping" ->
                 /\ health' = [h EXCEPT !.pc = "sleep"]
                 /\ UNCHANGED <<loop, drivers, clients>>
            [] OTHER ->
                 /\ health' = HealthAfterNeo(h, "RetryError")
                 /\ loop' = "free"
                 /\ drivers' = drivers - 1
                 /\ clients' = clients + 1
  /\ UNCHANGED <<store, indexExists, indexDocs, reindex, search>>
  /\ UNCHANGED <<handler, content>>

\* wait_fixed(2) has elapsed: tenacity starts the next attempt.
health_probe_sleep ==
  /\ loop = "health"
  /\ health.pc = "sleep"
  /\ health' = [health EXCEPT !.pc = "probe",
                              !.call = get_articles_wake(@)]
  /\ UNCHANGED <<store, indexExists, indexDocs, loop, reindex, search,
                 drivers, clients>>
  /\ UNCHANGED <<handler, content>>

\* The probe that creates the index it does not find.
get_or_create_index(exists, o) ==
  [exists |-> exists \/ o = "index_not_found",
   exc |-> IF o = "index_not_found" THEN "none" ELSE MeiliException(o)]

\* client.get_index("articles") of the health check: the index is left as
\* it is, and an index that is not found is an exception.
get_index(exists, o) == [exists |-> exists, exc |-> MeiliException(o)]

\* await client.get_index("articles") completes and the response is built.
health_meili ==
  /\ loop = "free"
  /\ health.pc = "meili"
  /\ \E o \in GetIndexOutcomes :
       LET probe == get_index(indexExists, o)
           status == health_status(probe.exc)
       IN /\ health' = [health EXCEPT
              !.pc = "idle",
              !.meiliProbe = IF probe.exc = "none"
                             THEN "returned" ELSE "raised",
              !.meilisearch = status,
              !.code = health_response(health.neo4j, status)]
          /\ indexExists' = probe.exists
  /\ clients' = clients - 1
  /\ UNCHANGED <<store, indexDocs, loop, reindex, search, drivers>>
  /\ UNCHANGED <<handler, content>>

\* ------------------------------------------------------------------ Next
Next ==
  \/ reindex_start
  \/ reindex_fetch
  \/ reindex_fetch_sleep
  \/ reindex_check
  \/ reindex_create
  \/ reindex_write
  \/ search_request
  \/ search_return
  \/ health_start
  \/ health_probe
  \/ health_probe_sleep
  \/ health_meili

Spec == Init /\ [][Next]_vars


\* The service at rest with an empty store: the state of the service in
\* the specifications of the content processing and of the log handler.
ServiceIdle ==
  /\ store = <<>>
  /\ indexExists = FALSE
  /\ indexDocs = EmptyDocs
  /\ loop = "free"
  /\ reindex = ReindexIdle
  /\ search = SearchIdle
  /\ health = HealthIdle
  /\ drivers = 0
  /\ clients = 0

\* ------------------------------------------------- extract_text_from_json
\* " ".join(texts)
RECURSIVE Join(_)
Join(texts) ==
  IF texts = <<>> THEN <<>>
  ELSE IF Len(texts) = 1 THEN texts[1]
  ELSE texts[1] \o <<" ">> \o Join(Tail(texts))

\* text for text in texts if text
Truthy(text) == text # <<>>

KeyText == <<"t", "e", "x", "t">>
KeyOther == <<"o", "t", "h", "e", "r">>

\* The function that joins every collected fragment, empty ones included.
RECURSIVE extract_text_unfiltered(_)
extract_text_unfiltered(obj) ==
  LET texts ==
        CASE obj.kind = "dict" ->
               [i \in 1..Len(obj.pairs) |->
                  IF /\ obj.pairs[i].key = KeyText
                     /\ obj.pairs[i].value.kind = "str"
                  THEN obj.pairs[i].value.val
                  ELSE extract_text_unfiltered(obj.pairs[i].value)]
          [] obj.kind = "list" ->
               [i \in 1..Len(obj.elems) |->
                  extract_text_unfiltered(obj.elems[i])]
          [] obj.kind = "str" -> <<obj.val>>
          [] OTHER -> <<>>
  IN Join(texts)

\* def extract_text_from_json(obj): the fragments of a dict (the value of a
\* "text" key directly, any other value recursively), of a list, or the
\* string itself; the non-empty fragments joined by single spaces.
RECURSIVE extract_text_from_json(_)
extract_text_from_json(obj) ==
  LET texts ==
        CASE obj.kind = "dict" ->
               [i \in 1..Len(obj.pairs) |->
                  IF /\ obj.pairs[i].key = KeyText
                     /\ obj.pairs[i].value.kind = "str"
                  THEN obj.pairs[i].value.val
                  ELSE extract_text_from_json(obj.pairs[i].value)]
          [] obj.kind = "list" ->
               [i \in 1..Len(obj.elems) |->
                  extract_text_from_json(obj.elems[i])]
          [] obj.kind = "str" -> <<obj.val>>
          [] OTHER -> <<>>
  IN Join(SelectSeq(texts, Truthy))

\* ------------------------------------------------------------- json.loads
\* The decoder of the standard library on strings without \b and \u
\* escapes: whitespace, the literals, numbers, strings, arrays and objects.
\* A control character inside a string is an error.
Whitespace == {" ", "\t", "\n", "\r"}
Digits == {"0", "1", "2", "3", "4", "5", "6", "7", "8", "9"}

DecodeFailed == [ok |-> FALSE, val |-> Null, next |-> 0]
Decoded(v, next) == [ok |-> TRUE, val |-> v, next |-> next]

HasPrefix(s, i, lit) ==
  /\ i + Len(lit) - 1 <= Len(s)
  /\ SubSeq(s, i, i + Len(lit) - 1) = lit

RECURSIVE SkipWhitespace(_, _)
SkipWhitespace(s, i) ==
  IF i <= Len(s) /\ s[i] \in Whitespace THEN SkipWhitespace(s, i + 1) ELSE i

RECURSIVE SkipDigits(_, _)
SkipDigits(s, i) ==
  IF i <= Len(s) /\ s[i] \in Digits THEN SkipDigits(s, i + 1) ELSE i

\* NUMBER_RE: (-?(?:0|[1-9]\d*))(\.\d+)?([eE][-+]?\d+)?  The position after
\* the longest match that starts at i, or 0 when there is none.
NumberEnd(s, i) ==
  LET a == IF i <= Len(s) /\ s[i] = "-" THEN i + 1 ELSE i
      intEnd == IF a > Len(s) THEN 0
                ELSE IF s[a] = "0" THEN a + 1
                ELSE IF s[a] \in Digits THEN SkipDigits(s, a + 1)
                ELSE 0
      fracEnd == IF /\ intEnd # 0
                    /\ intEnd + 1 <= Len(s)
                    /\ s[intEnd] = "."
                    /\ s[intEnd + 1] \in Digits
                 THEN SkipDigits(s, intEnd + 2) ELSE intEnd
      expDigits == IF fracEnd + 1 <= Len(s) /\ s[fracEnd + 1] \in {"+", "-"}
                   THEN fracEnd + 2 ELSE fracEnd + 1
  IN IF /\ fracEnd # 0
        /\ fracEnd <= Len(s)
        /\ s[fracEnd] \in {"e", "E"}
        /\ expDigits <= Len(s)
        /\ s[expDigits] \in Digits
     THEN SkipDigits(s, expDigits + 1) ELSE fracEnd

\* The character an escape sequence stands for.
Unescape(c) ==
  CASE c = "n" -> "\n"
    [] c = "r" -> "\r"
    [] c = "t" -> "\t"
    [] c = "f" -> "\f"
    [] OTHER -> c

\* py_scanstring from the character after the opening quote.
RECURSIVE ScanString(_, _, _)
ScanString(s, j, acc) ==
  IF j > Len(s) THEN DecodeFailed
  ELSE IF s[j] = "\"" THEN Decoded(Str(acc), j + 1)
  ELSE IF s[j] = "\\"
       THEN IF j + 1 <= Len(s) /\ s[j + 1] \in {"\"", "\\", "/", "n", "r", "t", "f"}
            THEN ScanString(s, j + 2, Append(acc, Unescape(s[j + 1])))
            ELSE DecodeFailed
  ELSE IF s[j] \in {"\t", "\n", "\r", "\f"} THEN DecodeFailed
  ELSE ScanString(s, j + 1, Append(acc, s[j]))

\* A dict keeps the position of the first pair with a key and the value of
\* the last one.
AddPair(pairs, k, v) ==
  IF \E i \in 1..Len(pairs) : pairs[i].key = k
  THEN [i \in 1..Len(pairs) |->
          IF pairs[i].key = k THEN [key |-> k, value |-> v] ELSE pairs[i]]
  ELSE Append(pairs, [key |-> k, value |-> v])

RECURSIVE ScanOnce(_, _)
RECURSIVE ScanItems(_, _, _)
RECURSIVE ScanMembers(_, _, _)

\* JSONArray after the first item's position is known.
ScanItems(s, i, acc) ==
  LET r == ScanOnce(s, i)
      j == SkipWhitespace(s, r.next)
  IN IF ~r.ok \/ j > Len(s) THEN DecodeFailed
     ELSE IF s[j] = "]" THEN Decoded(List(Append(acc, r.val)), j + 1)
     ELSE IF s[j] = ","
          THEN ScanItems(s, SkipWhitespace(s, j + 1), Append(acc, r.val))
     ELSE DecodeFailed

\* JSONObject at the opening quote of a key.
ScanMembers(s, i, acc) ==
  IF i > Len(s) \/ s[i] # "\"" THEN DecodeFailed
  ELSE
    LET k == ScanString(s, i + 1, <<>>)
        c == SkipWhitespace(s, k.next)
    IN IF ~k.ok \/ c > Len(s) \/ s[c] # ":" THEN DecodeFailed
       ELSE
         LET v == ScanOnce(s, SkipWhitespace(s, c + 1))
             j == SkipWhitespace(s, v.next)
             acc2 == AddPair(acc, k.val.val, v.val)
         IN IF ~v.ok \/ j > Len(s) THEN DecodeFailed
            ELSE IF s[j] = "}" THEN Decoded(Dict(acc2), j + 1)
            ELSE IF s[j] = ","
                 THEN ScanMembers(s, SkipWhitespace(s, j + 1), acc2)
            ELSE DecodeFailed

\* scan_once: the value that starts at position i.
ScanOnce(s, i) ==
  IF i > Len(s) THEN DecodeFailed
  ELSE IF s[i] = "\"" THEN ScanString(s, i + 1, <<>>)
  ELSE IF s[i] = "{"
       THEN LET j == SkipWhitespace(s, i + 1)
            IN IF j <= Len(s) /\ s[j] = "}" THEN Decoded(Dict(<<>>), j + 1)
               ELSE ScanMembers(s, j, <<>>)
  ELSE IF s[i] = "["
       THEN LET j == SkipWhitespace(s, i + 1)
            IN IF j <= Len(s) /\ s[j] = "]" THEN Decoded(List(<<>>), j + 1)
               ELSE ScanItems(s, j, <<>>)
  ELSE IF HasPrefix(s, i, <<"n", "u", "l", "l">>) THEN Decoded(Null, i + 4)
  ELSE IF HasPrefix(s, i, <<"t", "r", "u", "e">>)
       THEN Decoded(Bool(TRUE), i + 4)
  ELSE IF HasPrefix(s, i, <<"f", "a", "l", "s", "e">>)
       THEN Decoded(Bool(FALSE), i + 5)
  ELSE IF NumberEnd(s, i) # 0
       THEN Decoded(Num(SubSeq(s, i, NumberEnd(s, i) - 1)), NumberEnd(s, i))
  ELSE IF HasPrefix(s, i, <<"N", "a", "N">>)
       THEN Decoded(Num(<<"n", "a", "n">>), i + 3)
  ELSE IF HasPrefix(s, i, <<"I", "n", "f", "i", "n", "i", "t", "y">>)
       THEN Decoded(Num(<<"i", "n", "f">>), i + 8)
  ELSE IF HasPrefix(s, i, <<"-", "I", "n", "f", "i", "n", "i", "t", "y">>)
       THEN Decoded(Num(<<"-", "i", "n", "f">>), i + 9)
  ELSE DecodeFailed

\* json.loads(s): one value between optional whitespace; ok is FALSE when
\* JSONDecodeError is raised.
json_loads(s) ==
  LET r == ScanOnce(s, SkipWhitespace(s, 1))
  IN IF r.ok /\ SkipWhitespace(s, r.next) = Len(s) + 1
     THEN r ELSE DecodeFailed

\* Content trees of the checked behaviours: the scalars, the lists and
\* dicts of scalars, and the lists and dicts of up to two of those.
Leaves ==
  {Str(<<>>), Str(<<"a">>), Str(<<"b">>), Null}

SeqsUpTo(S, n) == UNION {[1..k -> S] : k \in 0..n}

Keys == {KeyText, KeyOther}

PairsOver(S) ==
  {<<>>}
    \cup {<<[key |-> k, value |-> v]>> : k \in Keys, v \in S}
    \cup {<<[key |-> k[1], value |-> v[1]], [key |-> k[2], value |-> v[2]]>> :
            k \in {q \in Keys \X Keys : q[1] # q[2]}, v \in S \X S}

Level1 ==
  Leaves
    \cup {Num(<<"1">>), Bool(TRUE)}
    \cup {List(e) : e \in SeqsUpTo(Leaves, MaxArrayLen)}
    \cup {Dict(p) : p \in PairsOver(Leaves)}

Level2 ==
  Level1
    \cup {List(e) : e \in {<<>>} \cup {<<a>> : a \in Level1}
                            \cup {<<q[1], q[2]>> : q \in Level1 \X Level1}}
    \cup {Dict(p) : p \in PairsOver(Level1)}

\* A content tree is handed to the extractor.
InitExtract ==
  /\ ServiceIdle
  /\ handler = HandlerIdle
  /\ \E t \in Level2 : content = [ContentIdle EXCEPT !.pc = "extract",
                                                     !.tree = t]

\* content_text = extract_text_from_json(content_json)
extract_text ==
  /\ content.pc = "extract"
  /\ content' = [content EXCEPT !.pc = "extracted",
                                !.text = extract_text_from_json(content.tree)]
  /\ UNCHANGED <<serviceVars, handler>>

SpecExtract == InitExtract /\ [][extract_text]_vars

\* ------------------------------------- content processing of get_articles
\* The characters of a number before its exponent.
RECURSIVE Mantissa(_)
Mantissa(text) ==
  IF text = <<>> \/ Head(text) \in {"e", "E"} THEN <<>>
  ELSE <<Head(text)>> \o Mantissa(Tail(text))

\* x != 0 for the number written as text: nan and the infinities, which
\* have no digit, are not zero; any other number is zero when its mantissa
\* has no digit other than 0.
NonZero(text) ==
  \/ \A i \in 1..Len(text) : text[i] \notin Digits
  \/ \E i \in 1..Len(Mantissa(text)) : Mantissa(text)[i] \in Digits \ {"0"}

\* if content_json_raw:
PyTruthy(raw) ==
  CASE raw.kind = "null"   -> FALSE
    [] raw.kind = "bool"   -> raw.val = <<"T">>
    [] raw.kind = "number" -> NonZero(raw.val)
    [] raw.kind = "str"    -> raw.val # <<>>
    [] raw.kind = "list"   -> raw.elems # <<>>
    [] OTHER               -> raw.pairs # <<>>

Has(chars, c) == \E i \in 1..Len(chars) : chars[i] = c

\* repr() of one character other than a quote, for the characters of the
\* checked strings (printable ASCII, tab, line feed, carriage return and
\* form feed): the backslash is doubled, \t, \n and \r are written as
\* such, and form feed, which is not printable, as \x0c.
EscapeChar(c) ==
  CASE c = "\\" -> <<"\\", "\\">>
    [] c = "\n" -> <<"\\", "n">>
    [] c = "\r" -> <<"\\", "r">>
    [] c = "\t" -> <<"\\", "t">>
    [] c = "\f" -> <<"\\", "x", "0", "c">>
    [] OTHER -> <<c>>

RECURSIVE EscapeChars(_)
EscapeChars(chars) ==
  IF chars = <<>> THEN <<>>
  ELSE (IF Head(chars) = "'" THEN <<"\\", "'">>
        ELSE EscapeChar(Head(chars)))
       \o EscapeChars(Tail(chars))

RECURSIVE EscapeBackslash(_)
EscapeBackslash(chars) ==
  IF chars = <<>> THEN <<>>
  ELSE EscapeChar(Head(chars)) \o EscapeBackslash(Tail(chars))

\* repr() of a string: single quotes unless it holds a single quote and no
\* double quote.
StrRepr(chars) ==
  IF Has(chars, "'") /\ ~Has(chars, "\"")
  THEN <<"\"">> \o EscapeBackslash(chars) \o <<"\"">>
  ELSE <<"'">> \o EscapeChars(chars) \o <<"'">>

RECURSIVE JoinWith(_, _)
JoinWith(sep, texts) ==
  IF texts = <<>> THEN <<>>
  ELSE IF Len(texts) = 1 THEN texts[1]
  ELSE texts[1] \o sep \o JoinWith(sep, Tail(texts))

\* repr() of a payload.
RECURSIVE PyRepr(_)
PyRepr(raw) ==
  CASE raw.kind = "null"   -> <<"N", "o", "n", "e">>
    [] raw.kind = "bool"   -> IF raw.val = <<"T">>
                              THEN <<"T", "r", "u", "e">>
                              ELSE <<"F", "a", "l", "s", "e">>
    [] raw.kind = "number" -> raw.val
    [] raw.kind = "str"    -> StrRepr(raw.val)
    [] raw.kind = "list"   ->
         <<"[">> \o JoinWith(<<",", " ">>,
                     [i \in 1..Len(raw.elems) |-> PyRepr(raw.elems[i])])
                 \o <<"]">>
    [] OTHER ->
         <<"{">> \o JoinWith(<<",", " ">>,
                     [i \in 1..Len(raw.pairs) |->
                        StrRepr(raw.pairs[i].key) \o <<":", " ">>
                          \o PyRepr(raw.pairs[i].value)])
                 \o <<"}">>

\* str(content_json_raw)
py_str(raw) == IF raw.kind = "str" THEN raw.val ELSE PyRepr(raw)

\* The processing that drops a string which does not decode.
process_content_drop_undecodable(raw, raises) ==
  IF ~PyTruthy(raw) THEN <<>>
  ELSE IF raises THEN py_str(raw)
  ELSE extract_text_from_json(
         IF raw.kind = "str" THEN json_loads(raw.val).val ELSE raw)

\* The processing whose except clause leaves the content empty.
process_content_no_fallback(raw, raises) ==
  IF ~PyTruthy(raw) THEN <<>>
  ELSE IF raises THEN <<>>
  ELSE extract_text_from_json(
         IF raw.kind = "str" /\ json_loads(raw.val).ok
         THEN json_loads(raw.val).val ELSE raw)

\* The content of the article of one record: empty for a falsy payload;
\* the text extracted from the decoded payload, from the string itself
\* when it does not decode, or from the structured payload; the string
\* representation of the payload when the processing raised.
process_content(raw, raises) ==
  IF ~PyTruthy(raw) THEN <<>>
  ELSE IF raises THEN py_str(raw)
  ELSE extract_text_from_json(
         IF raw.kind = "str" /\ json_loads(raw.val).ok
         THEN json_loads(raw.val).val ELSE raw)

\* for record in result: ... articles.append(article); raised is the set
\* of positions whose processing raised an unexpected exception.
get_articles_records(records, raised) ==
  [i \in 1..Len(records) |->
     [id |-> records[i].id, ver |-> records[i].ver,
      content |-> process_content(records[i].contentJson, i \in raised)]]

\* A record of the result: n.id, n.title and n.description, n.contentJson.
Record(id, raw) == [id |-> id, ver |-> 1, contentJson |-> raw]

RawChars == {"[", "]", "{", "}", "\"", "a", "1", ","}
RawStrings == SeqsUpTo(RawChars, MaxRawLen)

NotJson == <<"{", "n", "o", "t", " ", "j", "s", "o", "n">>

\* Payloads of the pages of two records.
SamplePayloads ==
  {Null, Str(<<"a">>), Str(NotJson), Str(<<"[", "\"", "a", "\"", "]">>),
   List(<<Str(<<"a">>), Num(<<"1">>)>>),
   Dict(<<[key |-> KeyText, value |-> Str(<<"b">>)]>>),
   Num(<<"n", "a", "n">>), Num(<<"0", ".", "0">>), List(<<Str(<<"\f">>)>>)}

\* Pages of the checked behaviours: one record with a raw string or a
\* structured payload, or two records with sample payloads.
ContentPages ==
  {<<Record(1, Str(r))>> : r \in RawStrings}
    \cup {<<Record(1, t)>> : t \in Level1}
    \cup {<<Record(1, q[1]), Record(2, q[2])>> :
            q \in SamplePayloads \X SamplePayloads}

InitContent ==
  /\ ServiceIdle
  /\ handler = HandlerIdle
  /\ \E recs \in ContentPages :
       content = [ContentIdle EXCEPT !.pc = "records", !.records = recs]

\* The loop over the records of one page; an unexpected exception can only
\* be raised inside the try block, which a falsy payload does not enter.
process_records ==
  /\ content.pc = "records"
  /\ \E raised \in SUBSET {i \in 1..Len(content.records) :
                             PyTruthy(content.records[i].contentJson)} :
       content' = [content EXCEPT
                     !.pc = "processed",
                     !.raised = raised,
                     !.articles = get_articles_records(content.records,
                                                       raised)]
  /\ UNCHANGED <<serviceVars, handler>>

SpecContent == InitContent /\ [][process_records]_vars


\* ------------------------------------------------- a store that changes
\* Article ids and versions of title, description and content of the
\* store whose articles are inserted, updated and deleted between and
\* during reindex runs.
ChurnIds == 1..2
ChurnVers == 1..2
ChurnRecords == [id : ChurnIds, ver : ChurnVers]

InitChurn ==
  /\ store \in {s \in SeqsUpTo(ChurnRecords, Cardinality(ChurnIds)) :
                  \A i \in 1..Len(s) : s[i].ver = 1}
  /\ indexExists \in BOOLEAN
  /\ indexDocs = EmptyDocs
  /\ loop = "free"
  /\ reindex = ReindexIdle
  /\ search = SearchIdle
  /\ health = HealthIdle
  /\ drivers = 0
  /\ clients = 0
  /\ handler = HandlerIdle
  /\ content = ContentIdle

\* CREATE (n:Article {...}) by a writer of the store.
store_insert ==
  /\ Len(store) < Cardinality(ChurnIds)
  /\ \E rec \in ChurnRecords : store' = Append(store, rec)
  /\ UNCHANGED <<indexExists, indexDocs, loop, reindex, search, health,
                 drivers, clients, handler, content>>

\* SET n.title = ..., n.description = ..., n.contentJson = ...
store_update ==
  /\ \E i \in 1..Len(store) : \E v \in ChurnVers \ {store[i].ver} :
       store' = [store EXCEPT ![i].ver = v]
  /\ UNCHANGED <<indexExists, indexDocs, loop, reindex, search, health,
                 drivers, clients, handler, content>>

\* DELETE n
store_delete ==
  /\ \E i \in 1..Len(store) :
       store' = SubSeq(store, 1, i - 1) \o SubSeq(store, i + 1, Len(store))
  /\ UNCHANGED <<indexExists, indexDocs, loop, reindex, search, health,
                 drivers, clients, handler, content>>

NextChurn ==
  \/ reindex_start
  \/ reindex_fetch
  \/ reindex_fetch_sleep
  \/ reindex_check
  \/ reindex_create
  \/ reindex_write
  \/ store_insert
  \/ store_update
  \/ store_delete

SpecChurn == InitChurn /\ [][NextChurn]_vars

\* ------------------------------------------------------ BetterStackHandler
\* deque(maxlen=...).append(x): a full deque discards its oldest entry.
deque_append(buffer, x, maxlen) ==
  IF Len(buffer) >= maxlen
  THEN Append(Tail(buffer), x)
  ELSE Append(buffer, x)

\* BetterStackHandler(token, url, max_buffer_size) in a running event loop;
\* setup_logging constructs it with the default max_buffer_size.
InitLog ==
  /\ ServiceIdle
  /\ content = ContentIdle
  /\ \E size \in DEFAULT_MAX_BUFFER_SIZE..MaxBufferSize :
       handler = [maxlen |-> size, buffer |-> <<>>, emitted |-> 0,
                  tasks |-> 0, batches |-> <<>>]

\* emit(record) in a running event loop.  Records are numbered in the order
\* of their emit calls.  When self.format(record) raises, the except clause
\* logs the error and nothing is appended; otherwise the entry is appended
\* to the buffer and a flush task is created when the buffer is full or
\* flush_interval has elapsed since the last flush.
emit ==
  /\ handler.maxlen > 0
  /\ handler.emitted < MaxEmits
  /\ \E formatted \in BOOLEAN : \E elapsed \in BOOLEAN :
       LET entry == handler.emitted + 1
           buffer == deque_append(handler.buffer, entry, handler.maxlen)
       IN IF formatted
          THEN handler' = [handler EXCEPT
                 !.emitted = entry,
                 !.buffer = buffer,
                 !.tasks = IF Len(buffer) >= handler.maxlen \/ elapsed
                           THEN @ + 1 ELSE @]
          ELSE handler' = [handler EXCEPT !.emitted = entry]
  /\ UNCHANGED <<serviceVars, content>>

\* flush() in a running event loop: loop.create_task(self._flush_async()).
flush ==
  /\ handler.maxlen > 0
  /\ handler.tasks < MaxTasks
  /\ handler' = [handler EXCEPT !.tasks = @ + 1]
  /\ UNCHANGED <<serviceVars, content>>

\* close() in a running event loop: a flush task is created when the
\* buffer is not empty.
close ==
  /\ handler.maxlen > 0
  /\ handler.tasks < MaxTasks
  /\ handler' = [handler EXCEPT
       !.tasks = IF handler.buffer # <<>> THEN @ + 1 ELSE @]
  /\ UNCHANGED <<serviceVars, content>>

\* The event loop runs one scheduled _flush_async task: a non-empty buffer
\* is copied, cleared and passed to _send_logs.
flush_async ==
  /\ handler.tasks > 0
  /\ handler' = [handler EXCEPT
       !.tasks = @ - 1,
       !.buffer = <<>>,
       !.batches = IF handler.buffer # <<>>
                   THEN Append(@, handler.buffer) ELSE @]
  /\ UNCHANGED <<serviceVars, content>>

NextLog ==
  \/ emit
  \/ close
  \/ flush
  \/ flush_async

SpecLog == InitLog /\ [][NextLog]_vars

\* ----------------------------------------------------------------- claims
StoreIds == {store[i].id : i \in 1..Len(store)}

\* C1: after a reindex run that completed without error against the stable
\* store, the index holds a document for exactly the article ids of the
\* store, whatever the number of articles (also above the page limit 100).
C1_ReindexCoversStore ==
  reindex.result = "ok" => DOMAIN indexDocs = StoreIds

\* The search request is over.
SearchDone == search.pc = "idle" /\ search.code # 0

\* C2: a search that failed because index.search raised MeilisearchApiError
\* made exactly 3 attempts against the index, each of them failing, and
\* logged exactly 2 retry warnings before it failed towards the caller.
C2_SearchRetriesThreeTimes ==
  (SearchDone /\ search.apiFailures >= 1 /\ search.otherFailures = 0)
    => /\ search.attempts = 3
       /\ search.indexCalls = 3
       /\ search.apiFailures = 3
       /\ search.warnings = 2

\* The outcomes of call c before its last one are all failures.
FailedBefore(c, k) == \A j \in 1..(k - 1) : c.outcomes[j] = "error"

\* The retry discipline of one get_articles call.
CallRetryOK(c) ==
  /\ Len(c.outcomes) <= 3
  /\ c.status = "raised" =>
       /\ c.outcomes = <<"error", "error", "error">>
       /\ c.warnings = <<1, 2>>
  /\ c.status = "returned" =>
       LET k == Len(c.outcomes)
       IN /\ k \in 1..3
          /\ c.outcomes[k] = "ok"
          /\ FailedBefore(c, k)
          /\ c.warnings = [i \in 1..(k - 1) |-> i]
          /\ c.articles = Articles(Page(store, c.skip, c.limit))
  /\ c.status = "sleeping" =>
       /\ FailedBefore(c, Len(c.outcomes) + 1)
       /\ c.warnings = [i \in 1..Len(c.outcomes) |-> i]
  /\ c.status = "running" =>
       /\ c.attempt = Len(c.outcomes) + 1
       /\ FailedBefore(c, c.attempt)
       /\ c.warnings = [i \in 1..Len(c.outcomes) |-> i]

\* C3: a get_articles call whose query fails on every attempt makes exactly
\* 3 attempts, logs the warnings of attempts 1 and 2 and then fails towards
\* its caller; a call whose attempt k succeeds returns the articles of that
\* attempt to its caller and makes no further attempt.
C3_GetArticlesRetry ==
  /\ CallRetryOK(reindex.call)
  /\ CallRetryOK(health.call)
  /\ reindex.call.status = "raised" =>
       reindex.result = "failed" /\ reindex.stage = "fetch"
  /\ reindex.call.status = "returned" =>
       reindex.articles = reindex.call.articles
  /\ health.call.status = "raised" => health.neoProbe = "raised"
  /\ health.call.status = "returned" => health.neoProbe = "returned"

C3_Witness ==
  /\ reindex.call.status = "raised"
  /\ Len(reindex.call.outcomes) = 3
  /\ health.call.status = "returned"
  /\ Len(health.call.outcomes) = 3

\* C4: one health check issues at most one store query and at most one
\* index existence check, and a check in which a store query failed reports
\* the repository unhealthy.
C4_HealthProbesOnce ==
  /\ Len(health.call.outcomes) <= 1
  /\ health.indexChecks <= 1
  /\ (health.pc \in {"meili", "idle"}
        /\ \E j \in 1..Len(health.call.outcomes) :
             health.call.outcomes[j] = "error")
       => health.neo4j = "unhealthy"

\* The health check has answered.
HealthDone == health.pc = "idle" /\ health.code # 0

\* C5: a finished health check ran both probes, reports unhealthy exactly
\* the dependencies whose probe raised, and answers 200 if and only if
\* both are healthy, 503 otherwise.
C5_HealthReport ==
  HealthDone =>
    /\ health.neoProbe \in {"returned", "raised"}
    /\ health.meiliProbe \in {"returned", "raised"}
    /\ health.indexChecks = 1
    /\ health.neo4j = "unhealthy" <=> health.neoProbe = "raised"
    /\ health.meilisearch = "unhealthy" <=> health.meiliProbe = "raised"
    /\ health.code = HTTP_OK <=>
         (health.neoProbe = "returned" /\ health.meiliProbe = "returned")
    /\ health.code \in {HTTP_OK, HTTP_UNAVAILABLE}

C5_Witness ==
  /\ HealthDone
  /\ health.neoProbe = "raised"
  /\ health.meiliProbe = "returned"
  /\ health.code = HTTP_UNAVAILABLE

\* C6: no exception leaves reindex_articles; a run that failed in a stage
\* logged the failure, ran no later stage and is idle again; within a run
\* the existence check, the index creation and the document write are each
\* attempted at most once.
C6_ReindexContainsFailures ==
  /\ ~reindex.escaped
  /\ reindex.checks <= 1
  /\ reindex.creates <= 1
  /\ reindex.writes <= 1
  /\ reindex.result = "failed" =>
       /\ reindex.pc = "idle"
       /\ loop # "reindex"
       /\ reindex.errLogs >= 1
       /\ reindex.stage \in {"driver", "fetch"} =>
            reindex.checks = 0 /\ reindex.creates = 0 /\ reindex.writes = 0
       /\ reindex.stage = "check" =>
            reindex.creates = 0 /\ reindex.writes = 0
       /\ reindex.stage = "create" => reindex.writes = 0
       /\ reindex.stage \in {"driver", "fetch", "check", "create", "write"}

C6_Witness ==
  /\ reindex.result = "failed"
  /\ reindex.stage = "create"
  /\ reindex.pc = "idle"

\* C7: in a reindex run the index creation is attempted if and only if the
\* existence check reported index_not_found; after any other error of the
\* check nothing is created and nothing is written in that run; an index
\* that was found is not created again.
C7_CreateOnlyWhenNotFound ==
  /\ reindex.creates >= 1 <=> reindex.checked = "index_not_found"
  /\ reindex.checked \in {"api_error", "other_error"} =>
       /\ reindex.creates = 0
       /\ reindex.writes = 0
       /\ reindex.result = "failed"
  /\ reindex.checked = "found" => reindex.creates = 0

C7_Witness ==
  /\ reindex.checked = "api_error"
  /\ reindex.result = "failed"
  /\ ~indexExists

\* The repository returned an empty article set to the run.
EmptyFetch ==
  reindex.call.status = "returned" /\ reindex.articles = <<>>

\* C8: a run that fetched an empty article set still makes the existence
\* check and creates a missing index; when it completes the index exists
\* and holds zero documents; the run, and any repetition of it, changes no
\* document and removes no index.
C8_EmptyRun ==
  /\ [](EmptyFetch =>
          /\ reindex.checks = 1
          /\ reindex.checked = "index_not_found" => reindex.creates = 1
          /\ reindex.result = "ok" =>
               indexExists /\ indexDocs = EmptyDocs)
  /\ [][EmptyFetch =>
          /\ indexDocs' = indexDocs
          /\ indexExists => indexExists']_vars

C8_Witness ==
  /\ EmptyFetch
  /\ reindex.run = 2
  /\ reindex.result = "ok"
  /\ reindex.checked = "found"
  /\ indexExists
  /\ indexDocs = EmptyDocs

\* A search request has been received.
SearchRequested == search.pc = "await" \/ search.code # 0

\* C9: a query of more than 500 characters is rejected with a validation
\* error and no call to the index is made; a query of 0 to 500 characters
\* passes validation and is delegated to the index.
C9_QueryValidation ==
  SearchRequested =>
    /\ search.qlen > 500 =>
         /\ search.code = HTTP_UNPROCESSABLE
         /\ search.body = "validation_error"
         /\ search.indexCalls = 0
         /\ search.pc = "idle"
    /\ search.qlen <= 500 =>
         /\ search.code # HTTP_UNPROCESSABLE
         /\ search.indexCalls >= 1

C9_Witness ==
  /\ search.qlen = 501
  /\ search.code = HTTP_UNPROCESSABLE
  /\ search.indexCalls = 0

\* C10: a finished search for a valid query answered 200 with a list of
\* hits or 500 with an error; it answered 500 whenever a call to the index
\* failed, and that answer differs from the one of a validation rejection.
C10_SearchOutcomes ==
  (SearchDone /\ SearchQuery(search.qlen)) =>
    /\ \/ search.code = HTTP_OK /\ search.body = "hits"
       \/ search.code = HTTP_SERVER_ERROR /\ search.body = "error"
    /\ (search.apiFailures + search.otherFailures >= 1)
         => search.code = HTTP_SERVER_ERROR
    /\ search.code # HTTP_UNPROCESSABLE

C10_Witness ==
  /\ SearchDone
  /\ search.otherFailures = 1
  /\ search.code = HTTP_SERVER_ERROR

\* The non-empty string leaves of a content tree in depth-first pre-order:
\* dict values in key enumeration order, list items in positional order.
RECURSIVE StringLeaves(_)
RECURSIVE LeavesOfAll(_)
LeavesOfAll(trees) ==
  IF trees = <<>> THEN <<>>
  ELSE StringLeaves(Head(trees)) \o LeavesOfAll(Tail(trees))
StringLeaves(t) ==
  CASE t.kind = "dict" ->
         LeavesOfAll([i \in 1..Len(t.pairs) |-> t.pairs[i].value])
    [] t.kind = "list" -> LeavesOfAll(t.elems)
    [] t.kind = "str" -> IF t.val = <<>> THEN <<>> ELSE <<t.val>>
    [] OTHER -> <<>>

\* The leaves written one after the other with one space between two.
RECURSIVE SpaceSeparated(_)
SpaceSeparated(ls) ==
  IF ls = <<>> THEN <<>>
  ELSE IF Tail(ls) = <<>> THEN Head(ls)
  ELSE Head(ls) \o <<" ">> \o SpaceSeparated(Tail(ls))

\* C11: for every content tree the extractor returns the non-empty string
\* leaves in depth-first pre-order separated by single spaces; scalars that
\* are not strings and empty strings contribute nothing, so
\* extract(null) = "", extract("") = "", extract("hello") = "hello" and
\* extract({"text": "a", "other": {"text": "b"}}) = "a b".
C11_ExtractIsLeafJoin ==
  content.pc = "extracted" =>
    /\ content.text = SpaceSeparated(StringLeaves(content.tree))
    /\ content.tree = Null => content.text = <<>>
    /\ content.tree = Str(<<>>) => content.text = <<>>
    /\ content.tree = Str(<<"a">>) => content.text = <<"a">>
    /\ content.tree =
         Dict(<<[key |-> KeyText, value |-> Str(<<"a">>)],
                [key |-> KeyOther,
                 value |-> Dict(<<[key |-> KeyText,
                                   value |-> Str(<<"b">>)]>>)]>>)
         => content.text = <<"a", " ", "b">>

C11_Witness ==
  /\ content.pc = "extracted"
  /\ content.tree =
       Dict(<<[key |-> KeyOther, value |-> List(<<Str(<<>>), Str(<<"b">>)>>)],
              [key |-> KeyText, value |-> Str(<<"a">>)]>>)
  /\ content.text = <<"b", " ", "a">>

\* C12: a record whose raw payload is a non-empty string that does not
\* decode yields an article whose content is that string, and the page
\* still has an article for every record.
C12_UndecodableStringIsContent ==
  content.pc = "processed" =>
    /\ Len(content.articles) = Len(content.records)
    /\ \A i \in 1..Len(content.records) :
         LET raw == content.records[i].contentJson
         IN /\ (raw.kind = "str" /\ raw.val # <<>> /\ ~json_loads(raw.val).ok)
                 => content.articles[i].content = raw.val
            /\ raw \in {Str(NotJson), Str(<<"{">>), Str(<<"a">>),
                        Str(<<"[", "1", ",", "]">>)}
                 => content.articles[i].content = raw.val

C12_Witness ==
  /\ content.pc = "processed"
  /\ content.raised = {}
  /\ Len(content.records) = 2
  /\ content.records[2].contentJson = Str(NotJson)
  /\ content.articles[2].content = NotJson

\* C13: no step of a health check changes the store, the existence of the
\* index or its documents; a check whose index probe runs while the index
\* is missing reports Meilisearch unhealthy (503) and leaves it missing.
C13_HealthMutatesNothing ==
  [][(health' # health) =>
       /\ UNCHANGED <<store, indexExists, indexDocs>>
       /\ (health.pc = "meili" /\ ~indexExists) =>
            /\ health'.meilisearch = "unhealthy"
            /\ health'.code = HTTP_UNAVAILABLE
            /\ ~indexExists']_vars

C13_Witness ==
  /\ health.pc = "idle"
  /\ health.meiliProbe = "raised"
  /\ health.neo4j = "healthy"
  /\ health.meilisearch = "unhealthy"
  /\ health.code = HTTP_UNAVAILABLE
  /\ ~indexExists
  /\ Len(store) > 0

\* C14: in every state in which a reindex run is in progress, a search
\* request that awaits its index call is able to take its next step.
C14_ReindexNeverStallsSearch ==
  (reindex.pc # "idle" /\ search.pc = "await") => ENABLED search_return

\* C15: a reindex run moves fetch -> check (-> create) -> write -> idle,
\* leaving the order only to end the run; the existence check is awaited
\* only after get_articles has returned with its session closed and the
\* event loop released, and documents are written only while the index
\* exists because this run found it or created it.
StageSteps ==
  {<<"idle", "fetch">>, <<"fetch", "sleep">>, <<"sleep", "fetch">>,
   <<"fetch", "check">>, <<"check", "create">>, <<"check", "write">>,
   <<"create", "write">>, <<"write", "idle">>,
   <<"idle", "idle">>, <<"fetch", "idle">>, <<"check", "idle">>,
   <<"create", "idle">>}

IndexEnsured ==
  /\ indexExists
  /\ \/ reindex.checked = "found" /\ reindex.creates = 0
     \/ reindex.checked = "index_not_found" /\ reindex.creates = 1

C15_StageOrder ==
  /\ [](/\ reindex.pc \in {"check", "create", "write"} =>
             /\ reindex.call.status = "returned"
             /\ reindex.call.opened = reindex.call.closed
             /\ reindex.call.opened > 0
             /\ loop # "reindex"
        /\ reindex.pc = "write" => IndexEnsured)
  /\ [][/\ (reindex' # reindex) => <<reindex.pc, reindex'.pc>> \in StageSteps
        /\ (indexDocs' # indexDocs) => (reindex.pc = "write" /\ IndexEnsured)
       ]_vars

C15_Witness ==
  /\ reindex.pc = "write"
  /\ reindex.call.attempt = 2
  /\ reindex.checked = "index_not_found"
  /\ reindex.creates = 1
  /\ indexExists

\* C16: whatever records of a page raise while their content is processed,
\* the page has one article per record in record order; the content of a
\* record that raised is the string representation of its raw payload and
\* the content of every other record is what it is when nothing raises.
ListRepr == <<"[", "'", "a", "'", ",", " ", "1", "]">>
FormFeedRepr == <<"[", "'", "\\", "x", "0", "c", "'", "]">>
DictRepr == <<"{", "'", "t", "e", "x", "t", "'", ":", " ", "'", "b", "'", "}">>

C16_RecordErrorKeepsPage ==
  content.pc = "processed" =>
    /\ Len(content.articles) = Len(content.records)
    /\ \A i \in 1..Len(content.records) :
         LET raw == content.records[i].contentJson
             art == content.articles[i]
         IN /\ art.id = content.records[i].id
            /\ art.ver = content.records[i].ver
            /\ i \in content.raised => art.content = py_str(raw)
            /\ i \notin content.raised =>
                 art.content =
                   get_articles_records(content.records, {})[i].content
            /\ (i \in content.raised
                  /\ raw = List(<<Str(<<"a">>), Num(<<"1">>)>>))
                 => art.content = ListRepr
            /\ (i \in content.raised
                  /\ raw = Dict(<<[key |-> KeyText, value |-> Str(<<"b">>)]>>))
                 => art.content = DictRepr
            /\ (i \in content.raised /\ raw = Num(<<"n", "a", "n">>))
                 => art.content = <<"n", "a", "n">>
            /\ raw = Num(<<"0", ".", "0">>) => art.content = <<>>
            /\ (i \in content.raised /\ raw = List(<<Str(<<"\f">>)>>))
                 => art.content = FormFeedRepr

C16_Witness ==
  /\ content.pc = "processed"
  /\ content.raised = {1}
  /\ Len(content.articles) = 2
  /\ content.records[1].contentJson = List(<<Str(<<"a">>), Num(<<"1">>)>>)
  /\ content.articles[1].content = ListRepr
  /\ content.records[2].contentJson =
       Dict(<<[key |-> KeyText, value |-> Str(<<"b">>)]>>)
  /\ content.articles[2].content = <<"b">>

\* C17: after a successful run the index holds, for every id fetched, one
\* document with the fields of the last article fetched with that id; and
\* after any number of successful runs in a row that fetched the same
\* articles, the index holds the documents it held after the first of them.
DocsAgree(docs, arts) ==
  \A id \in Ids(arts) :
    /\ id \in DOMAIN docs
    /\ docs[id] = arts[LastWith(arts, id)].ver

RunSucceeded == reindex.pc = "idle" /\ reindex.result = "ok"

C17_ReindexIdempotent ==
  RunSucceeded =>
    /\ DocsAgree(indexDocs, reindex.articles)
    /\ reindex.synced.runs >= 1
    /\ reindex.synced.articles = reindex.articles
    /\ indexDocs = reindex.synced.docs

C17_Witness ==
  /\ RunSucceeded
  /\ reindex.synced.runs = 2
  /\ Len(reindex.articles) = 2
  /\ reindex.articles[1].id # reindex.articles[2].id
  /\ \E i \in 1..2 : reindex.articles[i].ver = 2
  /\ DOMAIN indexDocs = Ids(reindex.articles)

\* C19: no step removes a document id from the index, so the document of
\* an article deleted from the store is still in the index after a later
\* successful run.
C19_DocumentsNeverRemoved ==
  [][DOMAIN indexDocs \subseteq DOMAIN indexDocs']_vars

C19_Witness ==
  /\ RunSucceeded
  /\ reindex.run = 2
  /\ Len(reindex.articles) = 1
  /\ \E id \in DOMAIN indexDocs :
       /\ id \notin StoreIds
       /\ id \notin Ids(reindex.articles)

\* C18: the open store drivers are those of the run and of the check that
\* are inside their Neo4jService block, the open search-engine clients are
\* those of the tasks inside their client block, and no get_articles call
\* that is between attempts or over has a session open: a reindex run or a
\* health check that has ended holds no driver, session or client.
One(b) == IF b THEN 1 ELSE 0

C18_NoConnectionLeaked ==
  /\ drivers = One(reindex.pc \in {"fetch", "sleep"})
                 + One(health.pc \in {"probe", "sleep"})
  /\ clients = One(reindex.pc \in {"check", "create", "write"})
                 + One(health.pc = "meili")
                 + One(search.pc = "await")
  /\ reindex.call.opened = reindex.call.closed
  /\ health.call.opened = health.call.closed
  /\ (reindex.pc = "idle" /\ health.pc = "idle" /\ search.pc = "idle")
       => (drivers = 0 /\ clients = 0)

C18_Witness ==
  /\ reindex.pc = "idle"
  /\ reindex.result = "failed"
  /\ reindex.stage = "fetch"
  /\ reindex.call.opened = NEO4J_STOP_AFTER_ATTEMPT
  /\ reindex.call.closed = NEO4J_STOP_AFTER_ATTEMPT
  /\ health.pc = "idle"
  /\ health.code = HTTP_UNAVAILABLE
  /\ search.pc = "idle"
  /\ drivers = 0
  /\ clients = 0

\* C20: no step loses or duplicates a record: an entry that is in the
\* buffer or in a batch passed to _send_logs is, after every step, either
\* still in the buffer or in exactly one batch, and there exactly once.
Occurrences(entries, n) ==
  Cardinality({i \in 1..Len(entries) : entries[i] = n})

RECURSIVE Flatten(_)
Flatten(batches) ==
  IF batches = <<>> THEN <<>>
  ELSE Head(batches) \o Flatten(Tail(batches))

Held(h, n) == Occurrences(h.buffer, n) + Occurrences(Flatten(h.batches), n)

C20_NoRecordLostOrDuplicated ==
  [][\A n \in 1..handler.emitted :
       Held(handler, n) >= 1 => Held(handler', n) = 1]_vars

====
